---- MODULE Spec2Model ----
(***************************************************************************)
(* A model of rdiff's signature producer: the rolling checksum of          *)
(* src/src/rollsum.rs (Window and its Rollsum operations) and the          *)
(* signature generator of src/src/mksum.rs (generate_signature with its    *)
(* helpers fill_buffer and write_u32be).                                   *)
(***************************************************************************)
EXTENDS Integers, Sequences, FiniteSets, TLC

VARIABLES
    overflow_checks, \* build profile: TRUE when integer overflow panics (debug)
    rs0,             \* the Window state the rolling-checksum run started in
    rs,              \* the Window state now (PANIC once an operation panicked)
    hist,            \* the rolling-checksum operations applied so far, in order
    contents,        \* the bytes a FIFO-disciplined caller holds in its window
    options,         \* generate_signature's SignatureOptions
    basis,           \* the bytes the input source holds, and how it may behave
    pos,             \* how many of them the source has handed out
    fill,            \* the block buffer buf, and fill_buffer's bytes_read
    pc,              \* where generate_signature is
    bw,              \* the bytes held in the BufWriter wrapped around sig
    out,             \* the bytes the caller's sink has accepted
    result,          \* how the call ended: "none" until it has
    io               \* what the call did so far, as its caller could observe

rollvars == <<rs0, rs, hist, contents>>
sigvars == <<options, basis, pos, fill, pc, bw, out, result, io>>
vars == <<overflow_checks, rollvars, sigvars>>

(***************************************************************************)
(* Bounds of the model.                                                    *)
(***************************************************************************)
MaxLen == 2          \* longest enumerated buffer passed to update
MaxOps == 2          \* longest recorded history of operations
MaxWin == 4          \* longest sliding window a FIFO caller keeps
MaxInput == 4        \* longest enumerated input of generate_signature
MaxBlock == 2        \* largest enumerated block_len
BufCap == 40         \* the BufWriter's capacity (8192 in std), scaled down

(***************************************************************************)
(* Fixed-width arithmetic.                                                 *)
(***************************************************************************)
U16 == 2^16
I32Max == (2^30 - 1) * 2 + 1

\* Wrapping<u16>: every result is reduced mod 2^16.
W16(x) == x % U16

\* floor((2^32 - 1) / a) for a > 1, computed without leaving 31 bits.
U32MaxDiv(a) == 2 * (I32Max \div a) + (2 * (I32Max % a) + 1) \div a

\* a * b does not fit a u32: where an overflow-checked build panics.
MulOverflowsU32(a, b) == a > 1 /\ b > U32MaxDiv(a)

\* (a * b) mod 2^17, by splitting a into a 9-bit low and an 8-bit high part, so
\* no intermediate value leaves 31 bits.
MulLow17(a, b) ==
    LET a17 == a % 2^17
        b17 == b % 2^17
        ah == a17 \div 2^9
        al == a17 % 2^9
    IN  (((ah * b17) % 2^8) * 2^9 + al * b17) % 2^17

\* ((a * b) wrapped to u32, / 2) as u16: bits 1..16 of the product, which the
\* wrap to 32 bits leaves alone.
HalfProductAsU16(a, b) == MulLow17(a, b) \div 2

(***************************************************************************)
(* rollsum.rs                                                              *)
(***************************************************************************)
CHAR_OFFSET == 31

\* Window::new(): the derived Default, all fields zero.
new == [count |-> 0, s1 |-> 0, s2 |-> 0]

\* What rs holds after an operation panicked: no Window value is left.
PANIC == [count |-> -1, s1 |-> -1, s2 |-> -1]

\* A u32 is kept as its two 16-bit halves.
AsU32(x) == [hi |-> x \div U16, lo |-> x % U16]

\* v << 16 on a u32: the low half moves up, the high half is shifted out.
Shl16(v) == [hi |-> v.lo, lo |-> 0]

\* a | b on 16-bit values, bit by bit.
RECURSIVE BitOr(_, _)
BitOr(a, b) ==
    IF a = 0 THEN b
    ELSE IF b = 0 THEN a
    ELSE 2 * BitOr(a \div 2, b \div 2) + (IF a % 2 = 1 \/ b % 2 = 1 THEN 1 ELSE 0)

U32Or(a, b) == [hi |-> BitOr(a.hi, b.hi), lo |-> BitOr(a.lo, b.lo)]

\* digest without the shift: s2 | s1.
digest_no_shift(w) == U32Or(AsU32(w.s2), AsU32(w.s1))

digest(w) == U32Or(Shl16(AsU32(w.s2)), AsU32(w.s1))

roll_in(w, c_in) ==
    LET s1 == W16(w.s1 + W16(CHAR_OFFSET + c_in))
    IN  [count |-> W16(w.count + 1), s1 |-> s1, s2 |-> W16(w.s2 + s1)]

\* roll_out with count decremented before it scales the byte leaving.
roll_out_count_after(w, c_out) ==
    [count |-> W16(w.count - 1),
     s1 |-> W16(w.s1 - W16(c_out + CHAR_OFFSET)),
     s2 |-> W16(w.s2 - W16(W16(w.count - 1) * W16(c_out + CHAR_OFFSET)))]

roll_out(w, c_out) ==
    [count |-> W16(w.count - 1),
     s1 |-> W16(w.s1 - W16(c_out + CHAR_OFFSET)),
     s2 |-> W16(w.s2 - W16(w.count * W16(c_out + CHAR_OFFSET)))]

\* rotate adding the s1 it started with to s2, not the updated s1.
rotate_old_s1(w, c_out, c_in) ==
    [count |-> w.count,
     s1 |-> W16(w.s1 + W16(c_in - c_out)),
     s2 |-> W16(w.s2 + W16(w.s1 - W16(w.count * W16(c_out + CHAR_OFFSET))))]

rotate(w, c_out, c_in) ==
    LET s1 == W16(w.s1 + W16(c_in - c_out))
    IN  [count |-> w.count,
         s1 |-> s1,
         s2 |-> W16(w.s2 + W16(s1 - W16(w.count * W16(c_out + CHAR_OFFSET))))]

\* One iteration of update's loop: s1 += c; s2 += s1.
UpdateLoopBody(acc, c) ==
    LET s1 == W16(acc[1] + c)
    IN  <<s1, W16(acc[2] + s1)>>

\* update's loop over buf[lo..hi], left to right, the accumulator threaded
\* through. The range is halved, and acc is looked at on entry, only to keep
\* the evaluation shallow on long buffers: the bytes are still visited in order.
RECURSIVE UpdateLoop(_, _, _, _)
UpdateLoop(buf, lo, hi, acc) ==
    IF acc[1] < 0 \/ lo > hi THEN acc
    ELSE IF lo = hi THEN UpdateLoopBody(acc, buf[lo])
    ELSE LET mid == (lo + hi) \div 2
         IN  UpdateLoop(buf, mid + 1, hi, UpdateLoop(buf, lo, mid, acc))

\* len * (len + 1) in u32 panics in a build with overflow checks.
UpdatePanics(buf) ==
    overflow_checks /\ MulOverflowsU32(Len(buf), Len(buf) + 1)

\* update running its loop from zero sums and adding the result to the state.
update_from_zero(w, buf) ==
    IF UpdatePanics(buf) THEN PANIC
    ELSE LET acc == UpdateLoop(buf, 1, Len(buf), <<0, 0>>)
             len == Len(buf)
             ll == W16(Len(buf))
             trilen == HalfProductAsU16(len, len + 1)
         IN  [count |-> W16(w.count + ll),
              s1 |-> W16(w.s1 + W16(acc[1] + W16(ll * CHAR_OFFSET))),
              s2 |-> W16(w.s2 + W16(acc[2] + W16(trilen * CHAR_OFFSET)))]

update(w, buf) ==
    IF UpdatePanics(buf) THEN PANIC
    ELSE LET acc == UpdateLoop(buf, 1, Len(buf), <<w.s1, w.s2>>)
             len == Len(buf)
             ll == W16(Len(buf))
             trilen == HalfProductAsU16(len, len + 1)
         IN  [count |-> W16(w.count + ll),
              s1 |-> W16(acc[1] + W16(ll * CHAR_OFFSET)),
              s2 |-> W16(acc[2] + W16(trilen * CHAR_OFFSET))]

(***************************************************************************)
(* Inputs the rolling-checksum specifications draw from.                   *)
(***************************************************************************)
ByteVals == {0, 255}

\* Every buffer over ByteVals of at most n bytes.
RECURSIVE BuffersUpTo(_)
BuffersUpTo(n) ==
    IF n = 0 THEN {<<>>}
    ELSE LET shorter == BuffersUpTo(n - 1)
         IN  shorter \cup {Append(b, c) : b \in {x \in shorter : Len(x) = n - 1},
                                          c \in ByteVals}

Buffers == BuffersUpTo(MaxLen)

\* A buffer of n zero bytes.
Zeros(n) == [i \in 1..n |-> 0] \o <<>>

\* The longest buffer whose len * (len + 1) fits a u32, and the next one.
LongBuffers == {Zeros(U16 - 1), Zeros(U16)}

\* The buffer of test::update: 256 bytes, buf[i] = i as u8.
RampBuffer == [i \in 1..256 |-> i - 1] \o <<>>

\* Window states a run may start in: the fields are three independent u16.
StartStates ==
    {new,
     [count |-> 1, s1 |-> 31, s2 |-> 31],
     [count |-> 3, s1 |-> 700, s2 |-> 40000],
     [count |-> 0, s1 |-> 65535, s2 |-> 1],
     [count |-> 65535, s1 |-> 65500, s2 |-> 65535]}

OpRec(op, c_out, c_in, buf, post) ==
    [op |-> op, c_out |-> c_out, c_in |-> c_in, buf |-> buf, post |-> post]

\* The Window state operation i of the history was applied to.
Pre(i) == IF i = 1 THEN rs0 ELSE hist[i - 1].post

(***************************************************************************)
(* SpecRollsum: any operations, in any order, from any Window state.       *)
(***************************************************************************)
\* generate_signature is not running in the rolling-checksum specifications.
SigIdle ==
    /\ options = [block_len |-> 1, strong_len |-> 0]
    /\ basis = [data |-> <<>>, may_pause |-> FALSE]
    /\ pos = 0
    /\ fill = [buf |-> <<>>, bytes_read |-> 0]
    /\ pc = "idle"
    /\ bw = <<>>
    /\ out = <<>>
    /\ result = "none"
    /\ io = [reads |-> 0, read_failed |-> FALSE, write_failed |-> FALSE,
             paused |-> FALSE, sig |-> <<>>, records |-> 0]

InitRollsum ==
    /\ overflow_checks \in BOOLEAN
    /\ rs0 \in StartStates
    /\ rs = rs0
    /\ hist = <<>>
    /\ contents = <<>>
    /\ SigIdle

CanCall == rs # PANIC /\ Len(hist) < MaxOps

RollIn(c_in) ==
    /\ CanCall
    /\ rs' = roll_in(rs, c_in)
    /\ hist' = Append(hist, OpRec("roll_in", 0, c_in, <<>>, rs'))
    /\ UNCHANGED <<overflow_checks, rs0, contents, sigvars>>

RollOut(c_out) ==
    /\ CanCall
    /\ rs' = roll_out(rs, c_out)
    /\ hist' = Append(hist, OpRec("roll_out", c_out, 0, <<>>, rs'))
    /\ UNCHANGED <<overflow_checks, rs0, contents, sigvars>>

Rotate(c_out, c_in) ==
    /\ CanCall
    /\ rs' = rotate(rs, c_out, c_in)
    /\ hist' = Append(hist, OpRec("rotate", c_out, c_in, <<>>, rs'))
    /\ UNCHANGED <<overflow_checks, rs0, contents, sigvars>>

\* Long buffers are passed to a fresh Window only, to keep the run small.
Update(buf) ==
    /\ CanCall
    /\ buf \in LongBuffers \cup {RampBuffer} => hist = <<>> /\ rs0 = new
    /\ rs' = update(rs, buf)
    /\ hist' = Append(hist, OpRec("update", 0, 0, buf, rs'))
    /\ UNCHANGED <<overflow_checks, rs0, contents, sigvars>>

NextRollsum ==
    \/ \E c_in \in ByteVals : RollIn(c_in)
    \/ \E c_out \in ByteVals : RollOut(c_out)
    \/ \E c_out \in ByteVals, c_in \in ByteVals : Rotate(c_out, c_in)
    \/ \E buf \in Buffers \cup LongBuffers \cup {RampBuffer} : Update(buf)

SpecRollsum == InitRollsum /\ [][NextRollsum]_vars

(***************************************************************************)
(* SpecWindow: a caller sliding a window over data from Window::new(),     *)
(* rolling out only the oldest byte it holds.  hist keeps the latest       *)
(* operation only.                                                         *)
(***************************************************************************)
WinBytes == {0, 1, 255}

InitWindow ==
    /\ overflow_checks \in BOOLEAN
    /\ rs0 = new
    /\ rs = new
    /\ hist = <<>>
    /\ contents = <<>>
    /\ SigIdle

WinRollIn(c_in) ==
    /\ Len(contents) < MaxWin
    /\ rs' = roll_in(rs, c_in)
    /\ contents' = Append(contents, c_in)
    /\ hist' = <<OpRec("roll_in", 0, c_in, <<>>, rs')>>
    /\ UNCHANGED <<overflow_checks, rs0, sigvars>>

WinRollOut ==
    /\ contents # <<>>
    /\ rs' = roll_out(rs, Head(contents))
    /\ contents' = Tail(contents)
    /\ hist' = <<OpRec("roll_out", Head(contents), 0, <<>>, rs')>>
    /\ UNCHANGED <<overflow_checks, rs0, sigvars>>

WinRotate(c_in) ==
    /\ contents # <<>>
    /\ rs' = rotate(rs, Head(contents), c_in)
    /\ contents' = Append(Tail(contents), c_in)
    /\ hist' = <<OpRec("rotate", Head(contents), c_in, <<>>, rs')>>
    /\ UNCHANGED <<overflow_checks, rs0, sigvars>>

NextWindow ==
    \/ \E c_in \in WinBytes : WinRollIn(c_in)
    \/ WinRollOut
    \/ \E c_in \in WinBytes : WinRotate(c_in)

SpecWindow == InitWindow /\ [][NextWindow]_vars

(***************************************************************************)
(* mksum.rs                                                                *)
(***************************************************************************)
RS_MAX_STRONG_SUM_LENGTH == 32

\* SignatureFormat::Blake2Sig = 0x72730137, as u32.
Blake2Sig == [hi |-> 7 * 16^3 + 2 * 16^2 + 7 * 16 + 3, lo |-> 16^2 + 3 * 16 + 7]

\* DEFAULT_BLOCK_LEN of the crate root, as generate_signature_on_arrays states it.
DEFAULT_BLOCK_LEN == 2 * 2^10

\* SignatureOptions::default(), the magic left out: it has one value.
default == [block_len |-> DEFAULT_BLOCK_LEN, strong_len |-> RS_MAX_STRONG_SUM_LENGTH]

\* write_u32::<BigEndian>: the four bytes of a u32, most significant first.
BigEndian(v) == <<v.hi \div 256, v.hi % 256, v.lo \div 256, v.lo % 256>>

\* Blake2bVar is a collaborator the model does not open: a stand-in that maps
\* a block to 32 bytes, every one of them a function of all of the block.
HashStep(h, c) == (h * 31 + c + 1) % 65521

RECURSIVE HashLoop(_, _, _, _)
HashLoop(b, lo, hi, h) ==
    IF h < 0 \/ lo > hi THEN h
    ELSE IF lo = hi THEN HashStep(h, b[lo])
    ELSE LET mid == (lo + hi) \div 2
         IN  HashLoop(b, mid + 1, hi, HashLoop(b, lo, mid, h))

Blake2b32(b) ==
    LET h == HashLoop(b, 1, Len(b), 7)
    IN  [i \in 1..RS_MAX_STRONG_SUM_LENGTH |-> (h * i + i) % 256] \o <<>>

Min(a, b) == IF a < b THEN a ELSE b

\* sig.write_all(data) and sig.write(data) on the BufWriter around the sink:
\* data that does not fit the spare capacity flushes the buffer first, data as
\* long as the capacity goes to the sink directly, anything else is buffered.
\* sink_ok says whether the sink accepts what it is handed during the call.
BufWriterWrite(data, sink_ok) ==
    LET flush == Len(data) > BufCap - Len(bw)
        direct == Len(data) >= BufCap
    IN  IF (flush \/ direct) /\ ~sink_ok
        THEN [ok |-> FALSE, bw |-> bw, out |-> out]
        ELSE LET bw1 == IF flush THEN <<>> ELSE bw
                 out1 == IF flush THEN out \o bw ELSE out
             IN  IF direct
                 THEN [ok |-> TRUE, bw |-> bw1, out |-> out1 \o data]
                 ELSE [ok |-> TRUE, bw |-> bw1 \o data, out |-> out1]

\* The effect of one `sig.write...(data)?` of generate_signature: on Ok the
\* call goes on at `next`, on Err it returns the error.
SigWrite(data, sink_ok, next) ==
    LET w == BufWriterWrite(data, sink_ok)
    IN  /\ bw' = w.bw
        /\ out' = w.out
        /\ io' = [io EXCEPT !.sig = IF w.ok THEN @ \o data ELSE @,
                            !.write_failed = @ \/ ~w.ok,
                            !.records = IF w.ok /\ pc = "strong" THEN @ + 1 ELSE @]
        /\ pc' = IF w.ok THEN next ELSE "drop"
        /\ result' = IF w.ok THEN result ELSE "Err"

\* let mut buf = vec![0; usize(options.block_len)]; BufWriter::new(sig).
Begin ==
    /\ pc = "start"
    /\ fill' = [buf |-> Zeros(options.block_len), bytes_read |-> 0]
    /\ pc' = "magic"
    /\ UNCHANGED <<overflow_checks, rollvars, options, basis, pos, bw, out,
                   result, io>>

\* The header written with strong_len ahead of block_len.
WriteHeaderSwapped ==
    /\ pc \in {"magic", "block_len", "strong_len"}
    /\ \E sink_ok \in BOOLEAN :
         SigWrite(BigEndian(CASE pc = "magic" -> Blake2Sig
                              [] pc = "block_len" -> AsU32(options.strong_len)
                              [] pc = "strong_len" -> AsU32(options.block_len)),
                  sink_ok,
                  CASE pc = "magic" -> "block_len"
                    [] pc = "block_len" -> "strong_len"
                    [] pc = "strong_len" -> "fill")
    /\ UNCHANGED <<overflow_checks, rollvars, options, basis, pos, fill>>

\* The three write_u32be calls of the header.
WriteHeader ==
    /\ pc \in {"magic", "block_len", "strong_len"}
    /\ \E sink_ok \in BOOLEAN :
         SigWrite(BigEndian(CASE pc = "magic" -> Blake2Sig
                              [] pc = "block_len" -> AsU32(options.block_len)
                              [] pc = "strong_len" -> AsU32(options.strong_len)),
                  sink_ok,
                  CASE pc = "magic" -> "block_len"
                    [] pc = "block_len" -> "strong_len"
                    [] pc = "strong_len" -> "fill")
    /\ UNCHANGED <<overflow_checks, rollvars, options, basis, pos, fill>>

\* What one inf.read(&mut buf[bytes_read..]) may return as Ok(l): at most the
\* bytes asked for and the bytes left; 0 when none are left, and from a source
\* that may pause also while some are.  A read of a long block returns all it
\* can.
ReadLens ==
    LET rem == Len(basis.data) - pos
        most == Min(Len(fill.buf) - fill.bytes_read, rem)
    IN  (IF most > MaxInput THEN {most} ELSE 1..most)
            \cup (IF rem = 0 \/ basis.may_pause THEN {0} ELSE {})

\* fill_buffer treating a read of fewer bytes than asked for as the end.
FillReadOnce ==
    /\ pc = "fill"
    /\ fill.bytes_read < Len(fill.buf)
    /\ \/ /\ pc' = "drop"
          /\ result' = "Err"
          /\ io' = [io EXCEPT !.reads = @ + 1, !.read_failed = TRUE]
          /\ UNCHANGED <<fill, pos>>
       \/ \E l \in ReadLens :
            /\ io' = [io EXCEPT !.reads = @ + 1,
                                !.paused = @ \/ (l = 0 /\ pos < Len(basis.data))]
            /\ fill' = [buf |-> SubSeq(fill.buf, 1, fill.bytes_read)
                                   \o SubSeq(basis.data, pos + 1, pos + l)
                                   \o SubSeq(fill.buf, fill.bytes_read + l + 1,
                                             Len(fill.buf)),
                        bytes_read |-> fill.bytes_read + l]
            /\ pos' = pos + l
            /\ pc' = "filled"
            /\ UNCHANGED result
    /\ UNCHANGED <<overflow_checks, rollvars, options, basis, bw, out>>

\* One turn of fill_buffer's loop: the read fails, returns 0 (break), or
\* returns l bytes that are placed at buf[bytes_read..].
FillRead ==
    /\ pc = "fill"
    /\ fill.bytes_read < Len(fill.buf)
    /\ \/ /\ pc' = "drop"
          /\ result' = "Err"
          /\ io' = [io EXCEPT !.reads = @ + 1, !.read_failed = TRUE]
          /\ UNCHANGED <<fill, pos>>
       \/ \E l \in ReadLens :
            /\ io' = [io EXCEPT !.reads = @ + 1,
                                !.paused = @ \/ (l = 0 /\ pos < Len(basis.data))]
            /\ fill' = [buf |-> SubSeq(fill.buf, 1, fill.bytes_read)
                                   \o SubSeq(basis.data, pos + 1, pos + l)
                                   \o SubSeq(fill.buf, fill.bytes_read + l + 1,
                                             Len(fill.buf)),
                        bytes_read |-> fill.bytes_read + l]
            /\ pos' = pos + l
            /\ pc' = IF l = 0 THEN "filled" ELSE "fill"
            /\ UNCHANGED result
    /\ UNCHANGED <<overflow_checks, rollvars, options, basis, bw, out>>

\* fill_buffer returns bytes_read as l; generate_signature leaves its loop
\* when l == 0.
FillDone ==
    /\ \/ pc = "filled"
       \/ pc = "fill" /\ fill.bytes_read >= Len(fill.buf)
    /\ pc' = IF fill.bytes_read = 0 THEN "ret" ELSE "weak"
    /\ UNCHANGED <<overflow_checks, rollvars, options, basis, pos, fill, bw,
                   out, result, io>>

\* The block: let b = &buf[..l].
b_slice == SubSeq(fill.buf, 1, fill.bytes_read)

\* The weak sum taken by a Window kept from the block before.
WriteWeakCarried ==
    /\ pc = "weak"
    /\ rs' = update(rs, b_slice)
    /\ IF rs' = PANIC
       THEN /\ pc' = "drop"
            /\ result' = "Panic"
            /\ UNCHANGED <<bw, out, io>>
       ELSE \E sink_ok \in BOOLEAN :
                SigWrite(BigEndian(digest(rs')), sink_ok, "strong")
    /\ UNCHANGED <<overflow_checks, rs0, hist, contents, options, basis, pos,
                   fill>>

\* let mut rs = Window::new(); rs.update(b); write_u32be(sig, rs.digest())?
WriteWeak ==
    /\ pc = "weak"
    /\ rs' = update(new, b_slice)
    /\ IF rs' = PANIC
       THEN /\ pc' = "drop"
            /\ result' = "Panic"
            /\ UNCHANGED <<bw, out, io>>
       ELSE \E sink_ok \in BOOLEAN :
                SigWrite(BigEndian(digest(rs')), sink_ok, "strong")
    /\ UNCHANGED <<overflow_checks, rs0, hist, contents, options, basis, pos,
                   fill>>

\* The loop going on to the next fill_buffer after a short block too.
WriteStrongNoBreak ==
    /\ pc = "strong"
    /\ IF options.strong_len > RS_MAX_STRONG_SUM_LENGTH
       THEN /\ pc' = "drop"
            /\ result' = "Panic"
            /\ UNCHANGED <<bw, out, io, fill>>
       ELSE /\ \E sink_ok \in BOOLEAN :
                 SigWrite(SubSeq(Blake2b32(b_slice), 1, options.strong_len), sink_ok,
                          "fill")
            /\ fill' = [fill EXCEPT !.bytes_read = IF pc' = "fill" THEN 0 ELSE @]
    /\ UNCHANGED <<overflow_checks, rollvars, options, basis, pos>>

\* The strong sum, sig.write(&d[..strong_len])?, and the loop's last test:
\* a block shorter than buf ends the loop.  Slicing d past its 32 bytes panics.
WriteStrong ==
    /\ pc = "strong"
    /\ IF options.strong_len > RS_MAX_STRONG_SUM_LENGTH
       THEN /\ pc' = "drop"
            /\ result' = "Panic"
            /\ UNCHANGED <<bw, out, io, fill>>
       ELSE /\ \E sink_ok \in BOOLEAN :
                 SigWrite(SubSeq(Blake2b32(b_slice), 1, options.strong_len), sink_ok,
                          IF fill.bytes_read < Len(fill.buf) THEN "ret" ELSE "fill")
            /\ fill' = [fill EXCEPT !.bytes_read = IF pc' = "fill" THEN 0 ELSE @]
    /\ UNCHANGED <<overflow_checks, rollvars, options, basis, pos>>

\* Ok(())
Return ==
    /\ pc = "ret"
    /\ result' = "Ok"
    /\ pc' = "drop"
    /\ UNCHANGED <<overflow_checks, rollvars, options, basis, pos, fill, bw,
                   out, io>>

\* The BufWriter goes out of scope as the call ends, by return or by unwinding:
\* its Drop flushes what it holds and discards the outcome.
Drop ==
    /\ pc = "drop"
    /\ pc' = "done"
    /\ bw' = <<>>
    /\ \E sink_ok \in BOOLEAN :
         IF bw = <<>>
         THEN UNCHANGED <<out, io>>
         ELSE IF sink_ok
         THEN out' = out \o bw /\ UNCHANGED io
         ELSE UNCHANGED out /\ io' = [io EXCEPT !.write_failed = TRUE]
    /\ UNCHANGED <<overflow_checks, rollvars, options, basis, pos, fill,
                   result>>

(***************************************************************************)
(* Spec: one call of generate_signature.                                   *)
(***************************************************************************)
StrongLens == {0, 2, RS_MAX_STRONG_SUM_LENGTH, RS_MAX_STRONG_SUM_LENGTH + 1}

\* The calls the specification starts: every short input with every small
\* block_len, the default options on short inputs, and one block of 2^16 bytes.
Calls ==
    {[options |-> [block_len |-> bl, strong_len |-> sl], data |-> d] :
        bl \in 0..MaxBlock, sl \in StrongLens, d \in BuffersUpTo(MaxInput)}
    \cup {[options |-> default, data |-> d] : d \in BuffersUpTo(1)}
    \cup {[options |-> [block_len |-> U16, strong_len |-> 2], data |-> Zeros(U16)]}

Init ==
    /\ overflow_checks \in BOOLEAN
    /\ rs0 = new
    /\ rs = new
    /\ hist = <<>>
    /\ contents = <<>>
    /\ \E c \in Calls, p \in BOOLEAN :
         /\ options = c.options
         /\ basis = [data |-> c.data, may_pause |-> p]
    /\ pos = 0
    /\ fill = [buf |-> <<>>, bytes_read |-> 0]
    /\ pc = "start"
    /\ bw = <<>>
    /\ out = <<>>
    /\ result = "none"
    /\ io = [reads |-> 0, read_failed |-> FALSE, write_failed |-> FALSE,
             paused |-> FALSE, sig |-> <<>>, records |-> 0]

Next ==
    \/ Begin
    \/ WriteHeader
    \/ FillRead
    \/ FillDone
    \/ WriteWeak
    \/ WriteStrong
    \/ Return
    \/ Drop

Spec == Init /\ [][Next]_vars

\* The call is straight-line code run by its caller's thread: a step that can be
\* taken is taken.  The calls are those of Spec on blocks shorter than 2^16.
FairSpec == (Init /\ options.block_len < U16) /\ [][Next]_vars /\ WF_vars(Next)

(***************************************************************************)
(* Properties of the rolling checksum.                                     *)
(***************************************************************************)
Last == hist[Len(hist)]

\* The latest two operations are update(b1) then update(b2).
TwoUpdates ==
    /\ Len(hist) >= 2
    /\ hist[Len(hist) - 1].op = "update"
    /\ Last.op = "update"

\* (a * b) mod 2^16 for a, b < 2^16.
MulW16(a, b) == W16(MulLow17(a, b))

\* C1 (SpecWindow): while a caller rolls bytes in at the tail and out at the
\* head of its window, starting from Window::new(), the Window equals what
\* update leaves on a fresh Window over the bytes now in the window, count is
\* the window's length, and an emptied window is back at count 0, digest 0.
C1_SlidingWindowInvariant ==
    /\ rs = update(new, contents)
    /\ rs.count = Len(contents)
    /\ contents = <<>> => rs.count = 0 /\ digest(rs) = AsU32(0)

\* C1's case: a full window has just been slid by one byte with rotate.
C1_Witness ==
    /\ hist # <<>>
    /\ hist[1].op = "rotate"
    /\ hist[1].c_out # hist[1].c_in
    /\ Len(contents) = MaxWin
    /\ digest(rs) # AsU32(0)

\* C7 (SpecRollsum): update(B1) followed by update(B2) leaves the Window in
\* the state a single update(B1 \o B2) leaves it in, from the same start.
C7_WholeBufferEquivalence ==
    TwoUpdates =>
        Last.post = update(Pre(Len(hist) - 1),
                           hist[Len(hist) - 1].buf \o Last.buf)

\* C7 restricted to buffers whose length update's u32 product can take.
WholeBufferEquivalenceShort ==
    (TwoUpdates /\ Len(hist[Len(hist) - 1].buf) + Len(Last.buf) < U16) =>
        Last.post = update(Pre(Len(hist) - 1),
                           hist[Len(hist) - 1].buf \o Last.buf)

\* The latest two operations are roll_in(c) then roll_out(c), the same byte.
RolledInAndOut ==
    /\ Len(hist) >= 2
    /\ hist[Len(hist) - 1].op = "roll_in"
    /\ Last.op = "roll_out"
    /\ Last.c_out = hist[Len(hist) - 1].c_in

\* C8 as stated (SpecRollsum): roll_in(c) followed by roll_out(c) returns
\* count, s1 and s2 to the values they had before the two calls.
C8_RollInRollOutInverse ==
    RolledInAndOut => Last.post = Pre(Len(hist) - 1)

\* C8 as amended (SpecRollsum): roll_in(c) followed by roll_out(c) returns
\* count and s1 to their values before the two calls and leaves s2 at
\* s2 + s1 - count * (c + 31) of the state before; from the zero state all
\* three fields are restored.
C8_RollInRollOutRestoresS1Count ==
    RolledInAndOut =>
        LET S == Pre(Len(hist) - 1)
        IN  /\ Last.post.count = S.count
            /\ Last.post.s1 = S.s1
            /\ Last.post.s2 =
                   W16(S.s2 + S.s1 - S.count * (Last.c_out + CHAR_OFFSET))
            /\ S = new => Last.post = new

\* C8's case: a byte rolled in and out again of a Window whose count wraps.
C8_Witness ==
    /\ RolledInAndOut
    /\ Last.c_out = 255
    /\ Pre(Len(hist) - 1).count = U16 - 1
    /\ hist[Len(hist) - 1].post.count = 0

\* C9 as amended (SpecRollsum): rotate(c_out, c_in) leaves the Window in
\* exactly the state roll_out(c_out) followed by roll_in(c_in) leaves it in,
\* count and digest included.
C9_RotateIsRollOutThenRollIn ==
    (hist # <<>> /\ Last.op = "rotate") =>
        LET two == roll_in(roll_out(Pre(Len(hist)), Last.c_out), Last.c_in)
        IN  /\ Last.post = two
            /\ digest(Last.post) = digest(two)

\* C9's case: rotate has swapped two different bytes on a Window holding bytes.
C9_Witness ==
    /\ hist # <<>>
    /\ Last.op = "rotate"
    /\ Last.c_out # Last.c_in
    /\ Pre(Len(hist)).count > 1

\* C9 as stated: some Window state and bytes make rotate end in a state other
\* than the one roll_out followed by roll_in reaches.
C9_RotateDiverges ==
    \E w \in (StartStates \cup {rs}) \ {PANIC}, c_out \in ByteVals, c_in \in ByteVals :
        rotate(w, c_out, c_in) # roll_in(roll_out(w, c_out), c_in)

\* What update(buf) leaves on a fresh zero Window.
Fresh(buf) == update(new, buf)

\* C10 as stated (SpecRollsum): update(B) adds to s1, s2 and count what
\* update(B) leaves on a fresh zero Window, whatever the state it starts in.
C10_UpdateAddsFreshResult ==
    (hist # <<>> /\ Last.op = "update") =>
        LET S == Pre(Len(hist))
            F == Fresh(Last.buf)
        IN  /\ Last.post.s1 = W16(S.s1 + F.s1)
            /\ Last.post.s2 = W16(S.s2 + F.s2)
            /\ Last.post.count = W16(S.count + F.count)

\* C10 as amended (SpecRollsum): when update(B) returns, s1 and count have
\* grown by the fresh-Window values, and s2 by the fresh-Window value plus
\* len(B) times the s1 the Window started with.
C10_UpdateCarriesS1 ==
    (hist # <<>> /\ Last.op = "update" /\ Last.post # PANIC) =>
        LET S == Pre(Len(hist))
            F == Fresh(Last.buf)
        IN  /\ Last.post.s1 = W16(S.s1 + F.s1)
            /\ Last.post.s2 =
                   W16(S.s2 + F.s2 + MulW16(W16(Len(Last.buf)), S.s1))
            /\ Last.post.count = W16(S.count + F.count)

\* C10's case: a non-empty buffer fed to a Window whose s1 is not zero.
C10_Witness ==
    /\ hist # <<>>
    /\ Last.op = "update"
    /\ Len(Last.buf) = MaxLen
    /\ Pre(Len(hist)).s1 # 0
    /\ Last.post # PANIC

(***************************************************************************)
(* Properties of generate_signature.                                       *)
(***************************************************************************)
N == Len(basis.data)

CeilDiv(n, d) == (n + d - 1) \div d

\* Three u32 fields.
HeaderLen == 3 * 4

RecordLen == 4 + options.strong_len

\* The preconditions the specification of generate_signature states.
ValidOptions ==
    options.block_len > 0 /\ options.strong_len <= RS_MAX_STRONG_SUM_LENGTH

\* No read and no write failed, and the source returned 0 only when exhausted.
NoIoError == ~io.read_failed /\ ~io.write_failed

\* Block k of the input, counted from 0.
Block(k) ==
    SubSeq(basis.data, k * options.block_len + 1,
           Min((k + 1) * options.block_len, N))

\* The record of a block: its weak sum, then strong_len bytes of its strong sum.
Record(blk) ==
    BigEndian(digest(update(new, blk)))
        \o SubSeq(Blake2b32(blk), 1, options.strong_len)

Header ==
    BigEndian(Blake2Sig) \o BigEndian(AsU32(options.block_len))
        \o BigEndian(AsU32(options.strong_len))

\* C2 (Spec): with valid options, no I/O error and a source that returns 0
\* only when exhausted, a finished call has emitted ceil(N / block_len)
\* records and the sink holds 12 + ceil(N / block_len) * (4 + strong_len) bytes.
C2_RecordCount ==
    (pc = "done" /\ ValidOptions /\ NoIoError /\ ~io.paused) =>
        /\ io.records = CeilDiv(N, options.block_len)
        /\ Len(out) = HeaderLen + CeilDiv(N, options.block_len) * RecordLen

\* C2 restricted to a block_len whose blocks update's u32 product can take.
RecordCountShortBlocks ==
    (pc = "done" /\ ValidOptions /\ NoIoError /\ ~io.paused
        /\ options.block_len < U16) =>
        /\ io.records = CeilDiv(N, options.block_len)
        /\ Len(out) = HeaderLen + CeilDiv(N, options.block_len) * RecordLen

\* C3 (Spec): the stream written to sig is the header, then for k = 0, 1, ...
\* the record of input block k, each computed from that block alone by a fresh
\* Window and by the strong hash, then at most the weak sum of the block in
\* work; the sink holds a prefix of that stream.
C3_RecordsInInputOrder ==
    ~io.paused =>
        /\ \A k \in 0..(io.records - 1) :
             SubSeq(io.sig, HeaderLen + k * RecordLen + 1,
                    HeaderLen + (k + 1) * RecordLen) = Record(Block(k))
        /\ pc = "strong" =>
             SubSeq(io.sig, HeaderLen + io.records * RecordLen + 1, Len(io.sig))
                 = BigEndian(digest(update(new, Block(io.records))))
        /\ pc \in {"fill", "filled", "weak", "ret"} =>
             Len(io.sig) = HeaderLen + io.records * RecordLen
        /\ out = SubSeq(io.sig, 1, Len(out))

\* C3's case: a call has returned Ok after writing a full block's record and
\* then the record of a shorter, different last block.
C3_Witness ==
    /\ pc = "done"
    /\ result = "Ok"
    /\ ~io.paused
    /\ NoIoError
    /\ options.strong_len = 2
    /\ io.records = 2
    /\ Len(Block(1)) < Len(Block(0))
    /\ Block(0)[1] # Block(1)[1]
    /\ out = io.sig

\* What generate_signature writes after the header from input position p on
\* when every read returns all the bytes asked for that are left.
RECURSIVE FullReadRun(_)
FullReadRun(p) ==
    LET l == Min(options.block_len, N - p)
        blk == SubSeq(basis.data, p + 1, p + l)
    IN  IF l = 0 \/ UpdatePanics(blk) THEN <<>>
        ELSE BigEndian(digest(update(new, blk)))
                \o (IF options.strong_len > RS_MAX_STRONG_SUM_LENGTH THEN <<>>
                    ELSE SubSeq(Blake2b32(blk), 1, options.strong_len)
                            \o (IF l < options.block_len THEN <<>>
                                ELSE FullReadRun(p + l)))

\* C4 (Spec): however the source split its reads, as long as each returned at
\* least one byte until the input was exhausted and no I/O failed, the sink
\* ends up holding what the run of full reads writes.
C4_ReadSplitIndependence ==
    (pc = "done" /\ NoIoError /\ ~io.paused) => out = Header \o FullReadRun(0)

\* C4's case: the longest input, read one byte at a time into the largest
\* block, so that every block took several reads.
C4_Witness ==
    /\ pc = "done"
    /\ result = "Ok"
    /\ NoIoError
    /\ ~io.paused
    /\ N = MaxInput
    /\ options.block_len = MaxBlock
    /\ options.strong_len = 2
    /\ io.reads = MaxInput + 1
    /\ io.records = CeilDiv(MaxInput, MaxBlock)

\* C5 (Spec): a call during which a read or a write to the sink failed, the
\* BufWriter's last flush included, has returned Err; so a call that returned
\* Ok has handed the sink the whole stream it wrote.
C5_ErrorsPropagate ==
    pc = "done" =>
        /\ (io.read_failed \/ io.write_failed) => result = "Err"
        /\ result = "Ok" => out = io.sig

\* C6 (Spec): with block_len = 0 or strong_len > 32 the call reads nothing,
\* writes nothing, neither to sig nor to the sink, and never returns Ok.
C6_BadOptionsRejectedBeforeIO ==
    ~ValidOptions =>
        /\ io.reads = 0
        /\ io.sig = <<>>
        /\ out = <<>>
        /\ result # "Ok"

\* The header of the default options, byte by byte: "rs", 0x01, 0x37, then
\* 2048 and 32 as big-endian u32.
DefaultHeader == <<114, 115, 1, 55, 0, 0, 8, 0, 0, 0, 0, 32>>

\* C11 (Spec): whatever the input and the options, what the call writes to sig
\* starts with magic, block_len, strong_len as big-endian u32, in that order and
\* ahead of any record: nothing is read before the 12 bytes are written, and the
\* sink holds a prefix of them or all of them and what follows.  A finished call
\* on the empty input with the default options, no write having failed, has put
\* exactly the 12 bytes 72 73 01 37 00 00 08 00 00 00 00 20 in the sink.
C11_HeaderFirst ==
    /\ SubSeq(io.sig, 1, Min(Len(io.sig), HeaderLen))
           = SubSeq(Header, 1, Min(Len(io.sig), HeaderLen))
    /\ (Len(io.sig) < HeaderLen) => (io.reads = 0 /\ io.records = 0)
    /\ (pc \in {"fill", "filled", "weak", "strong", "ret"}) =>
           SubSeq(io.sig, 1, HeaderLen) = Header
    /\ out = SubSeq(io.sig, 1, Len(out))
    /\ (pc = "done" /\ result = "Ok" /\ ~io.write_failed) =>
           SubSeq(out, 1, HeaderLen) = Header
    /\ (pc = "done" /\ options = default /\ N = 0 /\ NoIoError) =>
           (result = "Ok" /\ out = DefaultHeader)

\* C11's case: the call on the empty input with the default options is over,
\* the sink having accepted all that was written.
C11_Witness ==
    /\ pc = "done"
    /\ result = "Ok"
    /\ options = default
    /\ N = 0
    /\ NoIoError
    /\ Len(out) = HeaderLen

(***************************************************************************)
(* Closed forms of the rolling checksum.                                   *)
(***************************************************************************)
\* The sum of buf[lo..hi], mod 2^16.
RECURSIVE SumBytes(_, _, _)
SumBytes(buf, lo, hi) ==
    IF lo > hi THEN 0
    ELSE IF lo = hi THEN buf[lo]
    ELSE LET mid == (lo + hi) \div 2
         IN  W16(SumBytes(buf, lo, mid) + SumBytes(buf, mid + 1, hi))

\* The sum over i in lo..hi of (n - i + 1) * buf[i], n the length, mod 2^16.
RECURSIVE WeightedSum(_, _, _)
WeightedSum(buf, lo, hi) ==
    IF lo > hi THEN 0
    ELSE IF lo = hi THEN W16((Len(buf) - lo + 1) * buf[lo])
    ELSE LET mid == (lo + hi) \div 2
         IN  W16(WeightedSum(buf, lo, mid) + WeightedSum(buf, mid + 1, hi))

\* n * (n + 1) / 2 mod 2^16, the even factor halved before the product.
Triangular(n) ==
    IF n % 2 = 0 THEN MulW16(W16(n \div 2), W16(n + 1))
    ELSE MulW16(W16(n), W16((n + 1) \div 2))

\* The Window the closed form gives for a buffer.
ClosedForm(buf) ==
    LET n == Len(buf)
    IN  [count |-> W16(n),
         s1 |-> W16(SumBytes(buf, 1, n) + MulW16(31, W16(n))),
         s2 |-> W16(WeightedSum(buf, 1, n) + MulW16(31, Triangular(n)))]

\* update(buf) was the first call on a Window that was fresh.
FirstUpdateOnFresh == Len(hist) = 1 /\ hist[1].op = "update" /\ rs0 = new

\* C12 (SpecRollsum): update on a fresh zero Window over b_1..b_n leaves
\* s1 = sum of b_i + 31 n, s2 = sum of (n - i + 1) b_i + 31 n (n + 1) / 2 and
\* count = n, all mod 2^16; over the bytes 0, 1, ..., 255 the digest is
\* 0x3a009e80.
C12_UpdateClosedForm ==
    FirstUpdateOnFresh =>
        /\ hist[1].post = ClosedForm(hist[1].buf)
        /\ hist[1].buf = RampBuffer =>
               digest(hist[1].post) = [hi |-> 3 * 16^3 + 10 * 16^2,
                                       lo |-> 9 * 16^3 + 14 * 16^2 + 8 * 16]

\* C12 for the buffers on which update returns: those shorter than 2^16 bytes,
\* and every buffer in a build without overflow checks.
UpdateClosedFormWhereItReturns ==
    (FirstUpdateOnFresh /\ hist[1].post # PANIC) =>
        /\ hist[1].post = ClosedForm(hist[1].buf)
        /\ hist[1].buf = RampBuffer =>
               digest(hist[1].post) = [hi |-> 3 * 16^3 + 10 * 16^2,
                                       lo |-> 9 * 16^3 + 14 * 16^2 + 8 * 16]

\* update returns on every buffer shorter than 2^16 bytes.
UpdateReturnsOnShort ==
    (hist # <<>> /\ Last.op = "update" /\ Len(Last.buf) < U16) => Last.post # PANIC

\* C13 (SpecRollsum): in every Window state an operation has left, digest is
\* s2 in the upper and s1 in the lower 16 bits of a u32, whatever count is; the
\* zero state has digest 0, and one roll_in(0) from it has digest 0x001f001f.
C13_DigestPacking ==
    /\ rs # PANIC =>
          /\ digest(rs) = [hi |-> rs.s2, lo |-> rs.s1]
          /\ digest(rs).hi \in 0..(U16 - 1) /\ digest(rs).lo \in 0..(U16 - 1)
          /\ \A c \in {0, 1, rs.s1, rs.s2, U16 - 1} :
                digest([rs EXCEPT !.count = c]) = digest(rs)
    /\ digest(new) = AsU32(0)
    /\ (rs0 = new /\ Len(hist) = 1 /\ Last.op = "roll_in" /\ Last.c_in = 0) =>
          (rs.count = 1 /\ digest(rs) = [hi |-> 31, lo |-> 31])

\* C13's case: operations have left a Window whose s1 and s2 both have their
\* top bit set and differ, count being neither.
C13_Witness ==
    /\ hist # <<>>
    /\ rs # PANIC
    /\ rs.s1 >= 2^15
    /\ rs.s2 >= 2^15
    /\ rs.s1 # rs.s2
    /\ rs.count \notin {rs.s1, rs.s2}

\* C14 (SpecRollsum): no rolling-checksum operation fails: every call, roll_out
\* on count = 0 and update over 2^16 bytes and more included, returns a Window
\* whose fields are 16-bit values, and update has added 31 n (n + 1) / 2 mod
\* 2^16 to s2.
C14_OperationsTotal ==
    \A i \in 1..Len(hist) :
        /\ hist[i].post # PANIC
        /\ hist[i].post.count \in 0..(U16 - 1)
        /\ hist[i].post.s1 \in 0..(U16 - 1)
        /\ hist[i].post.s2 \in 0..(U16 - 1)
        /\ (hist[i].op = "update" /\ Pre(i) = new) =>
              hist[i].post.s2 = W16(WeightedSum(hist[i].buf, 1, Len(hist[i].buf))
                                    + MulW16(31, Triangular(Len(hist[i].buf))))

\* C14 for roll_in, roll_out and rotate alone, which wrap and never fail.
RollingOperationsTotal ==
    \A i \in 1..Len(hist) :
        hist[i].op # "update" =>
            /\ hist[i].post # PANIC
            /\ hist[i].post.count \in 0..(U16 - 1)
            /\ hist[i].post.s1 \in 0..(U16 - 1)
            /\ hist[i].post.s2 \in 0..(U16 - 1)

\* update fails exactly in a build with overflow checks on 2^16 bytes or more.
UpdateFailsOnlyOnOverflow ==
    \A i \in 1..Len(hist) :
        hist[i].op = "update" =>
            (hist[i].post = PANIC <=> (overflow_checks /\ Len(hist[i].buf) >= U16))

\* roll_in called for each byte of buf[lo..hi] in order, starting from w.
RECURSIVE RollInEach(_, _, _, _)
RollInEach(w, buf, lo, hi) ==
    IF w.count < 0 \/ lo > hi THEN w
    ELSE IF lo = hi THEN roll_in(w, buf[lo])
    ELSE LET mid == (lo + hi) \div 2
         IN  RollInEach(RollInEach(w, buf, lo, mid), buf, mid + 1, hi)

\* C15 (SpecRollsum): update(B) leaves the Window in the state that roll_in(b)
\* for each byte b of B in order leaves it in, from the same start.
C15_UpdateIsFoldOfRollIn ==
    (hist # <<>> /\ Last.op = "update") =>
        Last.post = RollInEach(Pre(Len(hist)), Last.buf, 1, Len(Last.buf))

\* C15 for the calls of update that return.
UpdateIsFoldOfRollInWhereItReturns ==
    (hist # <<>> /\ Last.op = "update" /\ Last.post # PANIC) =>
        Last.post = RollInEach(Pre(Len(hist)), Last.buf, 1, Len(Last.buf))

(***************************************************************************)
(* End of stream.                                                          *)
(***************************************************************************)
\* fill_buffer has returned for the current block.
AfterFill == pc \in {"filled", "weak", "strong", "ret", "drop", "done"}

\* The current block holds some bytes, fewer than block_len.
ShortBlock == 0 < fill.bytes_read /\ fill.bytes_read < Len(fill.buf)

\* The step is a read that returned Ok(0).
ZeroRead ==
    /\ pc = "fill"
    /\ io'.reads = io.reads + 1
    /\ ~io'.read_failed
    /\ pos' = pos

\* C16 (Spec): a read returning 0 ends fill_buffer whatever the block holds;
\* once fill_buffer has returned fewer than block_len bytes nothing is read
\* again, even from a source that has bytes left; the one record written after
\* it is the record of exactly the bytes accumulated, and the call goes on to
\* return; from the return on nothing is read or written to sig.
C16_ShortBlockIsLast ==
    [][/\ ZeroRead => (pc' = "filled" /\ fill'.bytes_read = fill.bytes_read)
       /\ (AfterFill /\ fill.bytes_read < Len(fill.buf)) =>
             (AfterFill' /\ io'.reads = io.reads /\ pos' = pos
                /\ fill'.bytes_read = fill.bytes_read)
       /\ (pc = "filled" /\ ShortBlock) => pc' = "weak"
       /\ (AfterFill /\ ShortBlock /\ io'.records # io.records) =>
             /\ pc = "strong" /\ pc' = "ret"
             /\ io'.records = io.records + 1
             /\ SubSeq(io'.sig, Len(io'.sig) - RecordLen + 1, Len(io'.sig))
                  = Record(SubSeq(basis.data, pos - fill.bytes_read + 1, pos))
       /\ pc \in {"ret", "drop", "done"} =>
             (io'.reads = io.reads /\ io'.records = io.records /\ io'.sig = io.sig)
      ]_vars

\* C16's case: after a full block the source returned one byte and then 0 with
\* a byte still to come; the call wrote the two records and returned Ok.
C16_Witness ==
    /\ pc = "done"
    /\ result = "Ok"
    /\ io.paused
    /\ ShortBlock
    /\ pos < N
    /\ io.records = 2
    /\ NoIoError
    /\ out = io.sig

(***************************************************************************)
(* count.                                                                  *)
(***************************************************************************)
\* What an operation of the history is to add to count.
CountDelta(o) ==
    CASE o.op = "roll_in" -> 1
      [] o.op = "roll_out" -> -1
      [] o.op = "rotate" -> 0
      [] o.op = "update" -> Len(o.buf)

\* Calls of roll_in less calls of roll_out plus the bytes passed to update,
\* over the first i operations.
RECURSIVE NetCount(_)
NetCount(i) == IF i = 0 THEN 0 ELSE NetCount(i - 1) + CountDelta(hist[i])

\* C17 (SpecRollsum): whatever the sequence of operations, rotate leaves count
\* alone, roll_in adds 1, roll_out takes 1 off and update(B) adds len(B), mod
\* 2^16; from Window::new(), count is roll_ins less roll_outs plus the bytes
\* updated, mod 2^16.
C17_CountBookkeeping ==
    /\ \A i \in 1..Len(hist) :
          hist[i].post.count = W16(Pre(i).count + CountDelta(hist[i]))
    /\ rs0 = new => rs.count = W16(NetCount(Len(hist)))

\* C17 while no update has panicked.
CountBookkeepingWhereUpdateReturns ==
    rs # PANIC =>
        /\ \A i \in 1..Len(hist) :
              hist[i].post.count = W16(Pre(i).count + CountDelta(hist[i]))
        /\ rs0 = new => rs.count = W16(NetCount(Len(hist)))

(***************************************************************************)
(* Termination.                                                            *)
(***************************************************************************)
\* The source returned at least one byte per read until exhausted, block_len
\* is positive and no read or write failed.
WellBehavedCall == options.block_len > 0 /\ NoIoError /\ ~io.paused

\* C18 (Spec): a call that has come to its end with valid options, no I/O
\* error and a source returning 0 only when exhausted has returned Ok(()), all
\* N bytes of the input read.
C18_EndsOkHavingReadAll ==
    (pc = "done" /\ WellBehavedCall /\ ValidOptions) => (result = "Ok" /\ pos = N)

\* Every call comes to its end, by return or by unwinding (FairSpec).
CallEnds == <>(pc = "done")

\* C18 for the calls that did not panic: those with strong_len <= 32 or an
\* empty input, and blocks shorter than 2^16 bytes or no overflow checks.
ReturnsOkHavingReadAllUnlessPanic ==
    (pc = "done" /\ WellBehavedCall /\ result # "Panic") =>
        (result = "Ok" /\ pos = N)

\* A call panics exactly on a strong_len above 32 with a block to sum, or on a
\* block of 2^16 bytes or more under overflow checks.
PanicsOnlyOnBadStrongLenOrOverflow ==
    result = "Panic" =>
        \/ options.strong_len > RS_MAX_STRONG_SUM_LENGTH /\ fill.bytes_read > 0
        \/ overflow_checks /\ fill.bytes_read >= U16

====
